---- MODULE Spec2Model ----
(***************************************************************************)
(* A model of skeema's lint command: the linter package (Options, the      *)
(* problem registry, Result, LintDir) and the lint command handler         *)
(* (LintHandler, lintWalker).                                              *)
(***************************************************************************)
EXTENDS Integers, Sequences, FiniteSets, TLC

VARIABLES
    cfgIn,      \* the lint-warning / lint-error lists handed to OptionsForDir
    cfgOut,     \* what OptionsForDir returned, or NoValue before the call
    parent,     \* the Result that Merge is called on (r)
    child,      \* the Result that is merged in (other)
    merged,     \* the children merged into parent so far, in call order
    parent0,    \* the parent before the first Merge
    root,       \* the root Result LintHandler got from lintWalker
    exit,       \* the exit status LintHandler derived from root, or NoExit
    tree,       \* the directory tree: children (Subdirs) and the directories
    depth0,     \* the maxDepth of the root call of lintWalker
    disk,       \* the text of every statement in its *.sql file
    text,       \* Statement.Text of every statement parsed by fs.ParseDir
    stack,      \* the active lintWalker calls, the root call first
    pcH,        \* where LintHandler is
    run,        \* the number of this invocation of the lint command
    visited,    \* the lintWalker calls of this run: directory and maxDepth
    linted,     \* the directories LintDir was called on in this run, in order
    lintOut,    \* the Result LintDir returned, per directory linted
    own,        \* a directory's Result when lintWalker turns to its subdirs
    execLog,    \* the ExecLogicalSchema calls of this run: <<directory, index>>
    rewritten   \* <<statement, run>>: Rewrite succeeded for it in that run

vars == <<cfgIn, cfgOut, parent, child, merged, parent0, root, exit, tree, depth0,
          disk, text, stack, pcH, run, visited, linted, lintOut, own, execLog,
          rewritten>>

\* no value: a nil error, a call that has not been made
NoValue == [kind |-> "none"]

\* the handler has not exited
NoExit == -1

\* ------------------------------------------------------------------ bounds

MaxList == 2
MaxMerges == 2
MaxBucket == 2
MaxTextLen == 3
MaxSchemas == 2
MaxDepth == 2
MaxBad == 1
MaxRuns == 2

\* ----------------------------------------------------------------- helpers

RECURSIVE SeqsUpTo(_, _)
SeqsUpTo(S, n) ==
    IF n = 0 THEN {<<>>}
    ELSE LET shorter == SeqsUpTo(S, n - 1)
         IN  shorter \cup {Append(s, x) : s \in {t \in shorter : Len(t) = n - 1}, x \in S}

Range(s) == {s[i] : i \in 1..Len(s)}

\* ------------------------------------------------ config.go: the severities

SeverityError == "error"

SeverityWarning == "warning"

\* ------------------------------------------- the problem registry (init())

\* the keys of the problems map
problems == {"no-pk", "bad-charset", "bad-engine"}

\* strings.ToLower on the rule names the model feeds in
ToLower(s) ==
    CASE s = "NO-PK" -> "no-pk"
      [] s = "No-Pk" -> "no-pk"
      [] s = "Bad-Engine" -> "bad-engine"
      [] s = "BAD-CHARSET" -> "bad-charset"
      [] s = "BOGUS" -> "bogus"
      [] OTHER -> s

problemExists(name) == ToLower(name) \in problems

\* Go iterates a map in an unspecified order: any ordering of the keys
allProblemNames ==
    {s \in SeqsUpTo(problems, Cardinality(problems)) :
        Len(s) = Cardinality(problems) /\ Range(s) = problems}

\* ---------------------------------------------------- config.go: Options

\* a map[string]Severity is a function on its keys; the empty map
EmptyMap == [k \in {} |-> SeverityError]

MapPut(m, k, v) == [x \in DOMAIN m \cup {k} |-> IF x = k THEN v ELSE m[x]]

\* type ConfigError string; the message is kept as its variable parts: the
\* option it is about and the rule names it enumerates
ConfigError(option, names) == [kind |-> "ConfigError", option |-> option, names |-> names]

\* one of the two loops of OptionsForDir: ps is opts.ProblemSeverity so far
RECURSIVE resolveSeverities(_, _, _)
resolveSeverities(vals, severity, ps) ==
    IF vals = <<>> THEN [ps |-> ps, ok |-> TRUE]
    ELSE IF ~problemExists(Head(vals)) THEN [ps |-> ps, ok |-> FALSE]
    ELSE resolveSeverities(Tail(vals), severity, MapPut(ps, ToLower(Head(vals)), severity))

\* the (Options, error) pair that OptionsForDir returns
optionsResult(cfg, ps, err) ==
    [ProblemSeverity |-> ps,
     AllowedCharSets |-> cfg.lintAllowedCharset,
     AllowedEngines |-> cfg.lintAllowedEngine,
     err |-> err]

\* a plausible slip: the lint-error list is resolved before lint-warning
OptionsForDirErrorFirst(cfg, names) ==
    LET e == resolveSeverities(cfg.lintError, SeverityError, EmptyMap)
        w == resolveSeverities(cfg.lintWarning, SeverityWarning, e.ps)
    IN  IF ~e.ok THEN optionsResult(cfg, e.ps, ConfigError("lint-error", names))
        ELSE IF ~w.ok THEN optionsResult(cfg, w.ps, ConfigError("lint-warning", names))
        ELSE optionsResult(cfg, w.ps, NoValue)

\* a plausible slip: an unknown name is skipped instead of reported
OptionsForDirLenient(cfg, names) ==
    LET known(l) == SelectSeq(l, problemExists)
        w == resolveSeverities(known(cfg.lintWarning), SeverityWarning, EmptyMap)
        e == resolveSeverities(known(cfg.lintError), SeverityError, w.ps)
    IN  optionsResult(cfg, e.ps, NoValue)

\* OptionsForDir: cfg holds the slices dir.Config.GetSlice returns for the four
\* lint options, names is the order in which allProblemNames() happened to
\* list the registry
OptionsForDir(cfg, names) ==
    LET w == resolveSeverities(cfg.lintWarning, SeverityWarning, EmptyMap)
        e == resolveSeverities(cfg.lintError, SeverityError, w.ps)
    IN  IF ~w.ok THEN optionsResult(cfg, w.ps, ConfigError("lint-warning", names))
        ELSE IF ~e.ok THEN optionsResult(cfg, e.ps, ConfigError("lint-error", names))
        ELSE optionsResult(cfg, e.ps, NoValue)

\* rule names as a user may write them in lint-warning and lint-error
RuleInputs == {"no-pk", "NO-PK", "bad-charset", "Bad-Engine", "bogus"}

RuleLists == SeqsUpTo(RuleInputs, MaxList)

\* the defaults AddCommandOptions gives the two allow-lists
DefaultAllowedCharset == <<"latin1", "utf8mb4">>

DefaultAllowedEngine == <<"innodb">>

LintConfig(warning, error) ==
    [lintWarning |-> warning, lintError |-> error,
     lintAllowedCharset |-> DefaultAllowedCharset,
     lintAllowedEngine |-> DefaultAllowedEngine]

\* ---------------------------------------------------- linter.go: Result

EmptyResult ==
    [Errors |-> <<>>, Warnings |-> <<>>, FormatNotices |-> <<>>,
     DebugLogs |-> <<>>, Exceptions |-> <<>>]

\* Go's append(a, b...): b's elements are added to a one at a time
RECURSIVE append(_, _)
append(a, b) == IF b = <<>> THEN a ELSE append(Append(a, Head(b)), Tail(b))

\* a plausible slip: entries the parent already holds are not added again
RECURSIVE appendNew(_, _)
appendNew(a, b) ==
    IF b = <<>> THEN a
    ELSE appendNew(IF Head(b) \in Range(a) THEN a ELSE Append(a, Head(b)), Tail(b))

MergeDedup(r, other) ==
    [Errors |-> appendNew(r.Errors, other.Errors),
     Warnings |-> appendNew(r.Warnings, other.Warnings),
     FormatNotices |-> appendNew(r.FormatNotices, other.FormatNotices),
     DebugLogs |-> appendNew(r.DebugLogs, other.DebugLogs),
     Exceptions |-> appendNew(r.Exceptions, other.Exceptions)]

\* Result.Merge: the value of *r after r.Merge(other)
Merge(r, other) ==
    [Errors |-> append(r.Errors, other.Errors),
     Warnings |-> append(r.Warnings, other.Warnings),
     FormatNotices |-> append(r.FormatNotices, other.FormatNotices),
     DebugLogs |-> append(r.DebugLogs, other.DebugLogs),
     Exceptions |-> append(r.Exceptions, other.Exceptions)]

\* an error that is not a ConfigError (fmt.Errorf); n is the number its
\* message gives, if any
ErrorfN(what, n) == [kind |-> "error", what |-> what, n |-> n]

Errorf(what) == ErrorfN(what, 0)

IsConfigError(err) == err.kind = "ConfigError"

\* BadConfigResult: err becomes a ConfigError unless it is one already
BadConfigResult(err) ==
    [EmptyResult EXCEPT
        !.Exceptions = <<IF IsConfigError(err) THEN err
                          ELSE [err EXCEPT !.kind = "ConfigError"]>>]

\* ------------------------------------------- the lint command: exit status

\* the exit codes of the command suite
CodeSuccess == 0

CodeDifferencesFound == 1

CodeFatalError == 2

CodeBadConfig == 78

\* a plausible slip: warnings are reported as a fatal error
exitStatusWarningsFatal(result) ==
    IF \E i \in 1..Len(result.Exceptions) : IsConfigError(result.Exceptions[i])
        THEN CodeBadConfig
    ELSE IF Len(result.Exceptions) > 0 THEN CodeFatalError
    ELSE IF Len(result.Errors) > 0 THEN CodeFatalError
    ELSE IF Len(result.Warnings) > 0 THEN CodeFatalError
    ELSE IF Len(result.FormatNotices) > 0 THEN CodeDifferencesFound
    ELSE CodeSuccess

\* LintHandler after the walk: the exit status it derives from the root Result
\* (a nil error is exit status 0)
exitStatus(result) ==
    IF \E i \in 1..Len(result.Exceptions) : IsConfigError(result.Exceptions[i])
        THEN CodeBadConfig
    ELSE IF Len(result.Exceptions) > 0 THEN CodeFatalError
    ELSE IF Len(result.Errors) > 0 THEN CodeFatalError
    ELSE IF Len(result.Warnings) > 0 THEN CodeDifferencesFound
    ELSE IF Len(result.FormatNotices) > 0 THEN CodeDifferencesFound
    ELSE CodeSuccess

\* ------------------------------------------------ statements and their text

\* a text is a sequence of characters; these stand for the delimiter and for
\* whitespace
Delimiter == ";"

Whitespace == {" "}

RECURSIVE TrimRight(_, _)
TrimRight(t, cutset) ==
    IF t # <<>> /\ t[Len(t)] \in cutset THEN TrimRight(SubSeq(t, 1, Len(t) - 1), cutset)
    ELSE t

TrimSuffix(t, c) ==
    IF t # <<>> /\ t[Len(t)] = c THEN SubSeq(t, 1, Len(t) - 1) ELSE t

\* Statement.SplitTextBody: the text without its trailing delimiter and
\* whitespace, and what was cut off
SplitTextBody(t) ==
    LET body == TrimRight(TrimSuffix(TrimRight(t, Whitespace), Delimiter), Whitespace)
    IN  [body |-> body, suffix |-> SubSeq(t, Len(body) + 1, Len(t))]

\* the *fs.Statement of table name in logical schema i of directory d
Stmt(d, i, name) == <<d, i, name>>

\* ------------------------------------------------------ regular expressions

\* dir.Config.GetRegexp returns (nil, nil) for a blank option, a compiled
\* pattern, or an error; a compiled pattern is the set of names it matches
NoRegexp == NoValue

Regexp(names) == [kind |-> "regexp", matches |-> names]

BadRegexp == [kind |-> "badregexp"]

MatchString(re, name) == name \in re.matches

\* ----------------------------------------------------- the three detectors

\* strings.ToLower on character set and storage engine names
ToLowerName(s) ==
    CASE s = "InnoDB" -> "innodb"
      [] s = "MyISAM" -> "myisam"
      [] s = "UTF8MB4" -> "utf8mb4"
      [] OTHER -> s

isAllowed(value, allowed) ==
    \E i \in 1..Len(allowed) : ToLowerName(value) = ToLowerName(allowed[i])

Annotation(stmt, summary, message) ==
    [Statement |-> stmt, Summary |-> summary, Message |-> message]

\* the annotations a detector returns: one per offending table, in the order
\* of schema.Tables; d and i locate logicalSchema.CreateTables
annotate(tables, d, i, summary, what) ==
    [k \in 1..Len(tables) |->
        Annotation(Stmt(d, i, tables[k].Name), summary, <<what, tables[k].Name>>)]

noPKDetector(schema, d, i, opts) ==
    LET offends(t) == ~t.PrimaryKey
    IN  annotate(SelectSeq(schema.Tables, offends), d, i, "No primary key", "no-pk")

badCharsetDetector(schema, d, i, opts) ==
    LET offends(t) == ~isAllowed(t.CharSet, opts.AllowedCharSets)
    IN  annotate(SelectSeq(schema.Tables, offends), d, i,
                 "Character set not permitted", "bad-charset")

badEngineDetector(schema, d, i, opts) ==
    LET offends(t) == ~isAllowed(t.Engine, opts.AllowedEngines)
    IN  annotate(SelectSeq(schema.Tables, offends), d, i,
                 "Storage engine not permitted", "bad-engine")

\* problems[name](schema, logicalSchema, opts)
detector(name, schema, d, i, opts) ==
    CASE name = "no-pk" -> noPKDetector(schema, d, i, opts)
      [] name = "bad-charset" -> badCharsetDetector(schema, d, i, opts)
      [] name = "bad-engine" -> badEngineDetector(schema, d, i, opts)

\* ---------------------------------------------------- linter.go: LintDir

\* a directory is a record: ignoreTable and ignoreSchema are what GetRegexp
\* returns for the two options, schema is GetSlice("schema"), lint the four
\* lint options, LogicalSchemas the logical schemas (CreateTables: the names
\* of the declared tables), exec[i] what workspace.ExecLogicalSchema returns
\* for logical schema i, and env what the directory's other collaborators do.

appendTo(result, bucket, entry) == [result EXCEPT ![bucket] = Append(@, entry)]

\* a plausible slip: the directory is skipped only if every schema name matches
foundIgnoredNameAll(dir, ignoreSchema) ==
    \A k \in 1..Len(dir.schema) : MatchString(ignoreSchema, dir.schema[k])

\* the inner loop over GetSlice("schema"): does any literal name match
foundIgnoredName(dir, ignoreSchema) ==
    \E k \in 1..Len(dir.schema) : MatchString(ignoreSchema, dir.schema[k])

\* a plausible slip: the canonical texts is compared with the whole statement
differsFromText(table, stmtText) == table.CreateStatement # stmtText

\* table.CreateStatement != body
differsFromBody(table, stmtText) == table.CreateStatement # SplitTextBody(stmtText).body

\* the loop over statementErrors
RECURSIVE lintStatementErrors(_, _, _, _, _)
lintStatementErrors(stmtErrs, d, i, ignoreTable, result) ==
    IF stmtErrs = <<>> THEN result
    ELSE LET e == Head(stmtErrs)
         IN  lintStatementErrors(Tail(stmtErrs), d, i, ignoreTable,
                IF ignoreTable # NoRegexp /\ MatchString(ignoreTable, e.TableName)
                THEN appendTo(result, "DebugLogs", <<"skip-table", e.TableName>>)
                ELSE appendTo(result, "Errors",
                        Annotation(Stmt(d, i, e.TableName), "SQL statement returned an error",
                                   <<"stmt-error", e.TableName>>)))

\* the loop over schema.Tables; texts holds the current Text of every statement
RECURSIVE lintTables(_, _, _, _, _, _)
lintTables(tables, d, i, texts, ignoreTable, result) ==
    IF tables = <<>> THEN result
    ELSE LET t == Head(tables)
             stmtText == texts[Stmt(d, i, t.Name)]
         IN  lintTables(Tail(tables), d, i, texts, ignoreTable,
                IF ignoreTable # NoRegexp /\ MatchString(ignoreTable, t.Name)
                THEN appendTo(result, "DebugLogs", <<"skip-table", t.Name>>)
                ELSE IF differsFromBody(t, stmtText)
                THEN appendTo(result, "FormatNotices",
                        Annotation(Stmt(d, i, t.Name), "SQL statement should be reformatted",
                                   t.CreateStatement \o SplitTextBody(stmtText).suffix))
                ELSE result)

\* the loop over dir.LogicalSchemas from index i on; acc holds the Result so
\* far and the logical schemas ExecLogicalSchema was called for
RECURSIVE lintSchemas(_, _, _, _, _, _, _)
lintSchemas(d, dir, texts, ignoreTable, ignoreSchema, i, acc) ==
    IF i > Len(dir.LogicalSchemas) THEN acc
    ELSE IF ignoreSchema # NoRegexp /\ foundIgnoredName(dir, ignoreSchema)
    THEN [acc EXCEPT !.result = appendTo(@, "DebugLogs", <<"skip-schema", "">>)]
    ELSE LET out == dir.exec[i]
             called == Append(acc.execCalls, i)
         IN  IF out.err
             THEN lintSchemas(d, dir, texts, ignoreTable, ignoreSchema, i + 1,
                    [result |-> appendTo(acc.result, "Exceptions", Errorf("skipping schema")),
                     execCalls |-> called])
             ELSE lintSchemas(d, dir, texts, ignoreTable, ignoreSchema, i + 1,
                    [result |-> lintTables(out.schema.Tables, d, i, texts, ignoreTable,
                                    lintStatementErrors(out.statementErrors, d, i, ignoreTable,
                                                        acc.result)),
                     execCalls |-> called])

\* LintDir(dir, opts) for directory d: the Result it returns and the logical
\* schemas it had evaluated
LintDir(d, dir, texts) ==
    IF dir.ignoreTable = BadRegexp
    THEN [result |-> BadConfigResult(Errorf("ignore-table")), execCalls |-> <<>>]
    ELSE IF dir.ignoreSchema = BadRegexp
    THEN [result |-> BadConfigResult(Errorf("ignore-schema")), execCalls |-> <<>>]
    ELSE lintSchemas(d, dir, texts, dir.ignoreTable, dir.ignoreSchema, 1,
                     [result |-> EmptyResult, execCalls |-> <<>>])

\* ================================================================ SpecOptions
\* OptionsForDir applied to every pair of lint-warning / lint-error lists.

IdleOptions == cfgIn = NoValue /\ cfgOut = NoValue

IdleMerge == parent = NoValue /\ child = NoValue /\ merged = <<>> /\ parent0 = NoValue

IdleExit == root = NoValue /\ exit = NoExit

IdleWalk ==
    /\ tree = NoValue /\ depth0 = 0 /\ disk = <<>> /\ text = <<>> /\ stack = <<>>
    /\ pcH = "idle" /\ run = 0 /\ visited = <<>> /\ linted = <<>> /\ lintOut = <<>>
    /\ own = <<>> /\ execLog = <<>> /\ rewritten = {}

optionsVars == <<cfgIn, cfgOut>>

mergeVars == <<parent, child, merged, parent0>>

exitVars == <<root, exit>>

walkVars == <<tree, depth0, disk, text, stack, pcH, run, visited, linted, lintOut,
              own, execLog, rewritten>>

InitOptions ==
    /\ cfgIn \in {LintConfig(w, e) : w \in RuleLists, e \in RuleLists}
    /\ cfgOut = NoValue
    /\ IdleMerge /\ IdleExit /\ IdleWalk

OptionsForDirCall ==
    /\ cfgIn # NoValue /\ cfgOut = NoValue
    /\ \E names \in allProblemNames : cfgOut' = OptionsForDir(cfgIn, names)
    /\ UNCHANGED <<cfgIn, mergeVars, exitVars, walkVars>>

NextOptions == OptionsForDirCall

SpecOptions == InitOptions /\ [][NextOptions]_vars

\* the rule names of a list, lower-cased
lowered(list) == {ToLower(list[i]) : i \in 1..Len(list)}

\* the names the registry holds, as the documentation of the options lists them
RegisteredNames == {"no-pk", "bad-charset", "bad-engine"}

\* C3: when OptionsForDir succeeds, ProblemSeverity has exactly the lower-cased
\* names of the two lists as keys; a name in lint-error (also one that is in
\* lint-warning too, in any letter case) maps to error, a name only in
\* lint-warning maps to warning.
C3_ErrorOverridesWarning ==
    (cfgOut # NoValue /\ cfgOut.err = NoValue) =>
        LET ps == cfgOut.ProblemSeverity
            W == lowered(cfgIn.lintWarning)
            E == lowered(cfgIn.lintError)
        IN  /\ DOMAIN ps = W \cup E
            /\ \A k \in E : ps[k] = "error"
            /\ \A k \in W \ E : ps[k] = "warning"

\* a successful resolution of a name given in both lists in different letter case
C3_Witness ==
    /\ cfgOut # NoValue /\ cfgOut.err = NoValue
    /\ "NO-PK" \in Range(cfgIn.lintWarning) /\ "no-pk" \in Range(cfgIn.lintError)
    /\ "Bad-Engine" \in Range(cfgIn.lintWarning)
    /\ cfgOut.ProblemSeverity["no-pk"] = "error"
    /\ cfgOut.ProblemSeverity["bad-engine"] = "warning"

\* C4: OptionsForDir returns an error exactly when some entry of lint-warning
\* or lint-error matches no registered rule name case-insensitively; the error
\* is a ConfigError whose message lists all registered rule names.
C4_UnknownRuleIsConfigError ==
    cfgOut # NoValue =>
        LET unknown == (lowered(cfgIn.lintWarning) \cup lowered(cfgIn.lintError))
                            \ RegisteredNames
        IN  /\ (unknown # {}) <=> (cfgOut.err # NoValue)
            /\ cfgOut.err # NoValue =>
                    /\ cfgOut.err.kind = "ConfigError"
                    /\ Range(cfgOut.err.names) = RegisteredNames

\* an unknown name in lint-error after a valid lint-warning list is reported
C4_Witness ==
    /\ cfgOut # NoValue /\ cfgOut.err # NoValue
    /\ cfgIn.lintWarning = <<"NO-PK">> /\ cfgIn.lintError = <<"bad-charset", "bogus">>
    /\ cfgOut.err.option = "lint-error"

\* ================================================================== SpecMerge
\* Result.Merge called repeatedly on one parent with a choice of children.

Buckets == {"Errors", "Warnings", "FormatNotices", "DebugLogs", "Exceptions"}

\* a Result whose buckets each hold n entries that name their bucket, except
\* the bucket skip, which is empty
sampleResult(tag, n, skip) ==
    [b \in Buckets |->
        IF b = skip THEN <<>> ELSE [i \in 1..n |-> [bucket |-> b, tag |-> tag, k |-> i]]]

ChildResults ==
    {sampleResult(tag, n, skip) :
        tag \in {1, 2}, n \in 1..MaxBucket, skip \in {"", "Warnings"}}

ParentResults == {EmptyResult, sampleResult(0, 1, "DebugLogs")}

InitMerge ==
    /\ parent \in ParentResults
    /\ parent0 = parent
    /\ child \in ChildResults
    /\ merged = <<>>
    /\ IdleOptions /\ IdleExit /\ IdleWalk

\* parent.Merge(child)
MergeCall ==
    /\ parent # NoValue
    /\ Len(merged) < MaxMerges
    /\ parent' = Merge(parent, child)
    /\ merged' = Append(merged, child)
    /\ UNCHANGED <<child, parent0, optionsVars, exitVars, walkVars>>

\* the caller goes on to another child Result
NextChild ==
    /\ parent # NoValue
    /\ \E c \in ChildResults \ {child} : child' = c
    /\ UNCHANGED <<parent, merged, parent0, optionsVars, exitVars, walkVars>>

NextMerge == MergeCall \/ NextChild

SpecMerge == InitMerge /\ [][NextMerge]_vars

RECURSIVE concatBucket(_, _)
concatBucket(results, b) ==
    IF results = <<>> THEN <<>> ELSE results[1][b] \o concatBucket(Tail(results), b)

occurrences(s, e) == Cardinality({i \in 1..Len(s) : s[i] = e})

RECURSIVE sumOccurrences(_, _, _)
sumOccurrences(results, b, e) ==
    IF results = <<>> THEN 0
    ELSE occurrences(results[1][b], e) + sumOccurrences(Tail(results), b, e)

\* C6: each Merge leaves every sequence of the parent equal to its previous
\* content followed by the child's sequence and leaves the child unchanged;
\* after any sequence of Merge calls every sequence of the parent is its
\* initial content followed by the merged children's in call order, so an
\* entry occurs as many times as it was merged (no deduplication).
C6_MergeAppends ==
    /\ [][MergeCall =>
            /\ \A b \in Buckets : parent'[b] = parent[b] \o child[b]
            /\ child' = child]_vars
    /\ [](parent # NoValue =>
            \A b \in Buckets :
                /\ parent[b] = parent0[b] \o concatBucket(merged, b)
                /\ \A e \in Range(parent[b]) :
                       occurrences(parent[b], e) =
                           occurrences(parent0[b], e) + sumOccurrences(merged, b, e))

\* the same child merged twice: each of its entries is in the parent twice
C6_Witness ==
    /\ parent # NoValue
    /\ parent0 = EmptyResult
    /\ Len(merged) = 2 /\ merged[1] = merged[2]
    /\ Len(merged[1].Errors) = 2 /\ merged[1].Warnings = <<>>
    /\ \A e \in Range(merged[1].Errors) : occurrences(parent.Errors, e) = 2

\* =================================================================== SpecExit
\* LintHandler's exit status for every population of the root Result's buckets.

sampleAnnotations(b, n) == [i \in 1..n |-> [bucket |-> b, tag |-> 0, k |-> i]]

RootResults ==
    {[Errors |-> sampleAnnotations("Errors", e),
      Warnings |-> sampleAnnotations("Warnings", w),
      FormatNotices |-> sampleAnnotations("FormatNotices", f),
      DebugLogs |-> <<>>,
      Exceptions |-> x] :
        e \in 0..MaxBucket, w \in 0..MaxBucket, f \in 0..MaxBucket,
        x \in SeqsUpTo({ConfigError("ignore-table", <<>>), Errorf("subdirs")}, MaxBucket)}

InitExit ==
    /\ root \in RootResults
    /\ exit = NoExit
    /\ IdleOptions /\ IdleMerge /\ IdleWalk

LintHandlerExit ==
    /\ root # NoValue /\ exit = NoExit
    /\ exit' = exitStatus(root)
    /\ UNCHANGED <<root, optionsVars, mergeVars, walkVars>>

NextExit == LintHandlerExit

SpecExit == InitExit /\ [][NextExit]_vars

Table(name, pk, charset, engine, canonical) ==
    [Name |-> name, PrimaryKey |-> pk, CharSet |-> charset, Engine |-> engine,
     CreateStatement |-> canonical]

\* what workspace.ExecLogicalSchema returns: (schema, statementErrors, nil)
ExecOK(tables, stmtErrs) ==
    [err |-> FALSE, schema |-> [Tables |-> tables], statementErrors |-> stmtErrs]

\* ... or (nil, nil, err)
ExecErr == [err |-> TRUE, schema |-> [Tables |-> <<>>], statementErrors |-> <<>>]

\* logical schemas with what the evaluator makes of them: one that cannot be
\* evaluated, one whose table is declared in canonical form, and one with a
\* table that needs reformatting and has no primary key, and a statement
\* that failed
KindErr == [CreateTables |-> ("t1" :> <<"a", ";">>), exec |-> ExecErr]

KindClean ==
    [CreateTables |-> ("t1" :> <<"a", ";">>),
     exec |-> ExecOK(<<Table("t1", TRUE, "utf8mb4", "InnoDB", <<"a">>)>>, <<>>)]

KindDrift ==
    [CreateTables |-> ("t1" :> <<"a", "a", ";">>) @@ ("t2" :> <<";">>),
     exec |-> ExecOK(<<Table("t1", FALSE, "big5", "MyISAM", <<"a">>)>>,
                     <<[TableName |-> "t2"]>>)]

SchemaLists == SeqsUpTo({KindErr, KindClean, KindDrift}, MaxSchemas)

\* what a directory's collaborators do: dir.FirstInstance (not called for a
\* Docker workspace with a flavor), workspace.OptionsForDir, File.Rewrite and
\* dir.Subdirs with the number of subdirectories it left out
EnvOK ==
    [instance |-> "ok", wsOptions |-> "ok", rewrite |-> "ok", subdirs |-> "ok",
     badCount |-> 0]

Envs ==
    [instance : {"ok", "err", "docker"}, wsOptions : {"ok", "err"},
     rewrite : {"ok", "err"}, subdirs : {"ok", "err"}, badCount : 0..MaxBad]

MkDir(ignoreTable, ignoreSchema, schema, lint, kinds, env) ==
    [ignoreTable |-> ignoreTable, ignoreSchema |-> ignoreSchema, schema |-> schema,
     lint |-> lint,
     LogicalSchemas |-> [i \in 1..Len(kinds) |-> [CreateTables |-> kinds[i].CreateTables]],
     exec |-> [i \in 1..Len(kinds) |-> kinds[i].exec],
     env |-> env]

\* the defaults of lint-warning and lint-error
DefaultLint == LintConfig(<<"bad-charset", "bad-engine">>, <<"no-pk">>)

\* directories that differ in configuration and logical schemas
ControlDirs ==
    {MkDir(it, is, sn, lc, ks, EnvOK) :
        it \in {NoRegexp, BadRegexp, Regexp({"t1"})},
        is \in {NoRegexp, BadRegexp, Regexp({"s1"})},
        sn \in {<<>>, <<"s2">>, <<"s2", "s1">>},
        lc \in {DefaultLint, LintConfig(<<"bogus">>, <<"NO-PK">>)},
        ks \in SchemaLists}

Texts == SeqsUpTo({"a", Delimiter, " "}, MaxTextLen)

\* SHOW CREATE TABLE output: it ends with neither a delimiter nor whitespace
CanonicalTexts ==
    {t \in SeqsUpTo({"a", Delimiter, " "}, 2) : t # <<>> /\ t[Len(t)] = "a"}

\* directories with one table, which differ in its declared and canonical text
TextDirs ==
    {MkDir(it, NoRegexp, <<"s1">>, DefaultLint,
           <<[CreateTables |-> ("t1" :> t),
              exec |-> ExecOK(<<Table("t1", TRUE, "latin1", "innodb", c)>>, <<>>)]>>,
           [EnvOK EXCEPT !.rewrite = rw]) :
        it \in {NoRegexp, Regexp({"t1"})}, t \in Texts, c \in CanonicalTexts,
        rw \in {"ok", "err"}}

\* directories that differ in what their collaborators do
EnvDirs ==
    {MkDir(NoRegexp, NoRegexp, <<"s1">>, DefaultLint, <<KindDrift>>, env) : env \in Envs}

\* the directories of the trees with subdirectories
TreeDirs ==
    {MkDir(NoRegexp, NoRegexp, <<"s1">>, DefaultLint, <<KindClean>>, EnvOK),
     MkDir(NoRegexp, NoRegexp, <<"s1">>, DefaultLint, <<KindDrift>>,
           [EnvOK EXCEPT !.badCount = 1]),
     MkDir(NoRegexp, NoRegexp, <<"s1">>, DefaultLint, <<KindClean>>,
           [EnvOK EXCEPT !.instance = "err"]),
     MkDir(NoRegexp, NoRegexp, <<"s1">>, DefaultLint, <<KindDrift>>,
           [EnvOK EXCEPT !.subdirs = "err", !.rewrite = "err"]),
     MkDir(BadRegexp, NoRegexp, <<"s1">>, DefaultLint, <<KindClean>>, EnvOK)}

\* the valid subdirectories of each directory, in listing order
Leaf == (1 :> <<>>)

Bushy == (1 :> <<2, 3>>) @@ (2 :> <<4>>) @@ (3 :> <<>>) @@ (4 :> <<>>)

Chain == (1 :> <<2>>) @@ (2 :> <<3>>) @@ (3 :> <<4>>) @@ (4 :> <<>>)

\* the depth LintHandler passes to lintWalker
HandlerDepth == 5

\* the statements of a tree and their declared text
Stmts(dirs) ==
    UNION {UNION {{Stmt(d, i, name) : name \in DOMAIN dirs[d].LogicalSchemas[i].CreateTables} :
                    i \in 1..Len(dirs[d].LogicalSchemas)} :
            d \in DOMAIN dirs}

DeclaredText(dirs) ==
    [st \in Stmts(dirs) |-> dirs[st[1]].LogicalSchemas[st[2]].CreateTables[st[3]]]

\* ------------------------------------------------------------ lintWalker

Frame(d, maxDepth) ==
    [dir |-> d, maxDepth |-> maxDepth, pc |-> "enter", result |-> EmptyResult, next |-> 1]

top == stack[Len(stack)]

setTop(f) == [stack EXCEPT ![Len(stack)] = f]

\* File.Rewrite: the file is written from the Text of its statement, or the
\* write fails and the file is left as it was
Rewrite(files, st, stmtText, outcome) ==
    IF outcome = "ok" THEN [files EXCEPT ![st] = stmtText] ELSE files

\* the loop over result.FormatNotices: acc holds the Text of the statements,
\* the files, the directory's Result and the statements written
RECURSIVE applyFormatNotices(_, _, _)
applyFormatNotices(notices, outcome, acc) ==
    IF notices = <<>> THEN acc
    ELSE LET a == Head(notices)
             newText == [acc.text EXCEPT ![a.Statement] = a.Message]
         IN  applyFormatNotices(Tail(notices), outcome,
                [text |-> newText,
                 disk |-> Rewrite(acc.disk, a.Statement, a.Message, outcome),
                 result |-> IF outcome = "ok" THEN acc.result
                            ELSE appendTo(acc.result, "Exceptions", Errorf("unable to write")),
                 written |-> IF outcome = "ok" THEN acc.written \cup {a.Statement}
                             ELSE acc.written])

\* a plausible slip: the depth limit is tested with < instead of <=
listSubdirsDeeper(result, env, subdirs, maxDepth) ==
    IF env.subdirs = "err"
    THEN [result |-> appendTo(result, "Exceptions", Errorf("cannot list subdirs")),
          recurse |-> FALSE]
    ELSE IF Len(subdirs) > 0 /\ maxDepth < 0
    THEN [result |-> appendTo(result, "Exceptions", Errorf("max depth reached")),
          recurse |-> FALSE]
    ELSE [result |-> IF env.badCount > 0
                     THEN appendTo(result, "Exceptions",
                                   ErrorfN("ignoring subdirs", env.badCount))
                     ELSE result,
          recurse |-> TRUE]

\* a plausible slip: the subdirectories left out are not reported
listSubdirsSilent(result, env, subdirs, maxDepth) ==
    IF env.subdirs = "err"
    THEN [result |-> appendTo(result, "Exceptions", Errorf("cannot list subdirs")),
          recurse |-> FALSE]
    ELSE IF Len(subdirs) > 0 /\ maxDepth <= 0
    THEN [result |-> appendTo(result, "Exceptions", Errorf("max depth reached")),
          recurse |-> FALSE]
    ELSE [result |-> result, recurse |-> TRUE]

\* the if / else if / else on dir.Subdirs(): the directory's Result and
\* whether lintWalker goes on to the subdirectories
listSubdirs(result, env, subdirs, maxDepth) ==
    IF env.subdirs = "err"
    THEN [result |-> appendTo(result, "Exceptions", Errorf("cannot list subdirs")),
          recurse |-> FALSE]
    ELSE IF Len(subdirs) > 0 /\ maxDepth <= 0
    THEN [result |-> appendTo(result, "Exceptions", Errorf("max depth reached")),
          recurse |-> FALSE]
    ELSE [result |-> IF env.badCount > 0
                     THEN appendTo(result, "Exceptions",
                                   ErrorfN("ignoring subdirs", env.badCount))
                     ELSE result,
          recurse |-> TRUE]

\* ------------------------------------------------------------ the actions

pureVars == <<cfgIn, cfgOut, parent, child, merged, parent0>>

InitWalk(children, dirs, maxDepth) ==
    /\ tree = [children |-> children, dirs |-> dirs]
    /\ depth0 = maxDepth
    /\ disk = DeclaredText(dirs)
    /\ text = DeclaredText(dirs)
    /\ stack = <<>>
    /\ pcH = "start"
    /\ run = 1
    /\ visited = <<>> /\ linted = <<>> /\ lintOut = <<>> /\ own = <<>>
    /\ execLog = <<>> /\ rewritten = {}
    /\ IdleOptions /\ IdleMerge /\ IdleExit

Init ==
    \/ \E dir \in ControlDirs \cup TextDirs \cup EnvDirs :
            InitWalk(Leaf, (1 :> dir), HandlerDepth)
    \/ \E children \in {Bushy, Chain}, dirs \in [1..4 -> TreeDirs], maxDepth \in 0..MaxDepth :
            InitWalk(children, dirs, maxDepth)

\* LintHandler: fs.ParseDir has read the statements from their files, and
\* lintWalker is called on the root directory
WalkStart ==
    /\ pcH = "start"
    /\ pcH' = "walking"
    /\ text' = disk
    /\ stack' = <<Frame(1, depth0)>>
    /\ UNCHANGED <<pureVars, exitVars, tree, depth0, disk, run, visited, linted, lintOut,
                   own, execLog, rewritten>>

\* lintWalker up to the call of LintDir: the instance and the workspace options
WalkEnter ==
    /\ pcH = "walking" /\ top.pc = "enter"
    /\ LET env == tree.dirs[top.dir].env
           failed == env.instance = "err" \/ env.wsOptions = "err"
           bad == BadConfigResult(Errorf(IF env.instance = "err" THEN "instance"
                                         ELSE "workspace options"))
       IN  /\ stack' = setTop(IF failed THEN [top EXCEPT !.pc = "return", !.result = bad]
                              ELSE [top EXCEPT !.pc = "lint"])
           /\ own' = IF failed THEN MapPut(own, top.dir, bad) ELSE own
    /\ visited' = Append(visited, [dir |-> top.dir, maxDepth |-> top.maxDepth])
    /\ UNCHANGED <<pureVars, exitVars, tree, depth0, disk, text, pcH, run, linted, lintOut,
                   execLog, rewritten>>

\* result := linter.LintDir(dir, opts)
WalkLint ==
    /\ pcH = "walking" /\ top.pc = "lint"
    /\ LET out == LintDir(top.dir, tree.dirs[top.dir], text)
       IN  /\ stack' = setTop([top EXCEPT !.pc = "apply", !.result = out.result])
           /\ lintOut' = MapPut(lintOut, top.dir, out.result)
           /\ execLog' = execLog \o [k \in 1..Len(out.execCalls) |-> <<top.dir, out.execCalls[k]>>]
    /\ linted' = Append(linted, top.dir)
    /\ UNCHANGED <<pureVars, exitVars, tree, depth0, disk, text, pcH, run, visited, own,
                   rewritten>>

\* the loops that log the Result and rewrite the files of the format notices
WalkApply ==
    /\ pcH = "walking" /\ top.pc = "apply"
    /\ LET done == applyFormatNotices(top.result.FormatNotices,
                        tree.dirs[top.dir].env.rewrite,
                        [text |-> text, disk |-> disk, result |-> top.result, written |-> {}])
       IN  /\ text' = done.text
           /\ disk' = done.disk
           /\ stack' = setTop([top EXCEPT !.pc = "subdirs", !.result = done.result])
           /\ rewritten' = rewritten \cup {<<st, run>> : st \in done.written}
    /\ UNCHANGED <<pureVars, exitVars, tree, depth0, pcH, run, visited, linted, lintOut,
                   own, execLog>>

\* dir.Subdirs() and the three branches on what it returns
WalkSubdirs ==
    /\ pcH = "walking" /\ top.pc = "subdirs"
    /\ LET out == listSubdirs(top.result, tree.dirs[top.dir].env,
                              tree.children[top.dir], top.maxDepth)
       IN  /\ stack' = setTop([top EXCEPT !.pc = IF out.recurse THEN "recurse" ELSE "return",
                                          !.result = out.result, !.next = 1])
           /\ own' = MapPut(own, top.dir, out.result)
    /\ UNCHANGED <<pureVars, exitVars, tree, depth0, disk, text, pcH, run, visited, linted,
                   lintOut, execLog, rewritten>>

\* lintWalker(sub, maxDepth-1) is called for the next subdirectory
WalkRecurse ==
    /\ pcH = "walking" /\ top.pc = "recurse"
    /\ top.next <= Len(tree.children[top.dir])
    /\ stack' = Append(stack, Frame(tree.children[top.dir][top.next], top.maxDepth - 1))
    /\ UNCHANGED <<pureVars, exitVars, tree, depth0, disk, text, pcH, run, visited, linted,
                   lintOut, own, execLog, rewritten>>

returning ==
    \/ top.pc = "return"
    \/ top.pc = "recurse" /\ top.next > Len(tree.children[top.dir])

\* a call for a subdirectory returns: result.Merge(...) in the caller
WalkReturn ==
    /\ pcH = "walking" /\ Len(stack) > 1 /\ returning
    /\ LET caller == stack[Len(stack) - 1]
       IN  stack' = [SubSeq(stack, 1, Len(stack) - 1) EXCEPT ![Len(stack) - 1] =
                        [caller EXCEPT !.result = Merge(caller.result, top.result),
                                       !.next = caller.next + 1]]
    /\ UNCHANGED <<pureVars, exitVars, tree, depth0, disk, text, pcH, run, visited, linted,
                   lintOut, own, execLog, rewritten>>

\* the root call returns to LintHandler
WalkDone ==
    /\ pcH = "walking" /\ Len(stack) = 1 /\ returning
    /\ root' = top.result
    /\ stack' = <<>>
    /\ pcH' = "walked"
    /\ UNCHANGED <<pureVars, exit, tree, depth0, disk, text, run, visited, linted, lintOut,
                   own, execLog, rewritten>>

\* LintHandler returns the exit value
HandlerExit ==
    /\ pcH = "walked"
    /\ exit' = exitStatus(root)
    /\ pcH' = "exited"
    /\ UNCHANGED <<pureVars, root, tree, depth0, disk, text, stack, run, visited, linted,
                   lintOut, own, execLog, rewritten>>

\* the lint command is run again on the same tree, with the files as the
\* previous run left them
Rerun ==
    /\ pcH = "exited" /\ run < MaxRuns
    /\ run' = run + 1
    /\ pcH' = "start"
    /\ root' = NoValue /\ exit' = NoExit
    /\ visited' = <<>> /\ linted' = <<>> /\ lintOut' = <<>> /\ own' = <<>> /\ execLog' = <<>>
    /\ UNCHANGED <<pureVars, tree, depth0, disk, text, stack, rewritten>>

Next ==
    \/ WalkStart \/ WalkEnter \/ WalkLint \/ WalkApply \/ WalkSubdirs
    \/ WalkRecurse \/ WalkReturn \/ WalkDone \/ HandlerExit \/ Rerun

Spec == Init /\ [][Next]_vars

\* ------------------------------------------------------------- the claims

dirOf(n) == tree.dirs[n]

\* the logical schemas of directory n that the evaluator was called for
evaluated(n) == {execLog[k][2] : k \in {j \in 1..Len(execLog) : execLog[j][1] = n}}

\* how many of the errors errs are of the kind what
countErrors(errs, what) == Cardinality({k \in 1..Len(errs) : errs[k].what = what})

\* how many of the annotations are about statement st
countFor(annotations, st) ==
    Cardinality({k \in 1..Len(annotations) : annotations[k].Statement = st})

\* C2 as stated: for every logical schema the evaluator materializes, the
\* findings of the detector of every rule in Options.ProblemSeverity are in
\* the Errors of the directory's Result if the rule's severity is error and
\* in its Warnings if it is warning.
C2_DetectorsRun ==
    \A n \in DOMAIN lintOut :
        LET dir == dirOf(n)
            opts == OptionsForDir(dir.lint, <<"no-pk", "bad-charset", "bad-engine">>)
        IN  opts.err = NoValue =>
                \A i \in evaluated(n) :
                    ~dir.exec[i].err =>
                        \A rule \in DOMAIN opts.ProblemSeverity :
                            \A a \in Range(detector(rule, dir.exec[i].schema, n, i, opts)) :
                                a \in Range(lintOut[n][IF opts.ProblemSeverity[rule] = "error"
                                                       THEN "Errors" ELSE "Warnings"])

\* the configuration of a directory matches a literal schema name
schemaIgnored(dir) ==
    /\ dir.ignoreSchema \notin {NoRegexp, BadRegexp}
    /\ \E k \in 1..Len(dir.schema) : dir.schema[k] \in dir.ignoreSchema.matches

oneDebugTraceOnly(result) ==
    /\ Len(result.DebugLogs) = 1
    /\ result.Errors = <<>> /\ result.Warnings = <<>>
    /\ result.FormatNotices = <<>> /\ result.Exceptions = <<>>

\* C5 as stated: when ignore-schema is set and matches a literal schema name,
\* LintDir on a directory with logical schemas calls the evaluator for none
\* of them and returns one debug trace and nothing else.
C5_AsStated ==
    \A n \in DOMAIN lintOut :
        (schemaIgnored(dirOf(n)) /\ Len(dirOf(n).LogicalSchemas) >= 1) =>
            /\ evaluated(n) = {}
            /\ oneDebugTraceOnly(lintOut[n])

\* C5 amended: the same, provided the ignore-table pattern is well-formed.
C5_IgnoredSchemaSkipsDir ==
    \A n \in DOMAIN lintOut :
        (/\ dirOf(n).ignoreTable # BadRegexp
         /\ schemaIgnored(dirOf(n))
         /\ Len(dirOf(n).LogicalSchemas) >= 1) =>
            /\ evaluated(n) = {}
            /\ oneDebugTraceOnly(lintOut[n])

\* a directory with two logical schemas and an ignore-schema that matches the
\* second of its two schema names has been linted
C5_Witness ==
    \E n \in DOMAIN lintOut :
        /\ dirOf(n).ignoreTable # BadRegexp
        /\ schemaIgnored(dirOf(n))
        /\ dirOf(n).schema = <<"s2", "s1">>
        /\ Len(dirOf(n).LogicalSchemas) = 2
        /\ ~dirOf(n).exec[1].err
        /\ Len(lintOut[n].DebugLogs) = 1

\* C8: LintDir emits a format notice for a table it does not ignore exactly
\* when the table's canonical text differs from the body of its declared
\* statement, the notice's message being the canonical text plus the
\* statement's suffix; and a statement whose file an earlier run has
\* rewritten gets no format notice when its directory is linted again.
C8_RewriteIsIdempotent ==
    /\ (pcH = "walking" /\ top.pc = "apply") =>
            LET n == top.dir
                notices == top.result.FormatNotices
            IN  \A i \in evaluated(n) :
                    LET tables == dirOf(n).exec[i].schema.Tables
                    IN  \A j \in 1..Len(tables) :
                            LET t == tables[j]
                                st == Stmt(n, i, t.Name)
                                split == SplitTextBody(text[st])
                                ignored == /\ dirOf(n).ignoreTable # NoRegexp
                                           /\ t.Name \in dirOf(n).ignoreTable.matches
                            IN  (~dirOf(n).exec[i].err /\ ~ignored) =>
                                    /\ countFor(notices, st) =
                                            IF t.CreateStatement # split.body THEN 1 ELSE 0
                                    /\ \A a \in Range(notices) :
                                            a.Statement = st => a.Message = t.CreateStatement \o split.suffix
    /\ \A n \in DOMAIN lintOut :
            \A a \in Range(lintOut[n].FormatNotices) :
                \A r \in 1..(run - 1) : <<a.Statement, r>> \notin rewritten

\* a statement with a suffix was rewritten in the first run, and the second
\* run has linted its directory without a format notice
C8_Witness ==
    /\ run = 2
    /\ \E n \in DOMAIN lintOut :
            /\ lintOut[n].FormatNotices = <<>>
            /\ \E st \in DOMAIN disk :
                    /\ st[1] = n
                    /\ <<st, 1>> \in rewritten
                    /\ SplitTextBody(disk[st]).suffix = <<" ", ";">>

\* the names OptionsForDir lists in an error, in some order
someNames == <<"no-pk", "bad-charset", "bad-engine">>

configFails(dir) ==
    \/ dir.ignoreTable = BadRegexp
    \/ dir.ignoreSchema = BadRegexp
    \/ OptionsForDir(dir.lint, someNames).err # NoValue

\* C10 as stated: if a directory's ignore-table or ignore-schema pattern is
\* malformed or lint-warning or lint-error holds an unknown rule name, LintDir
\* returns exactly one exception, a ConfigError, and nothing else, and has
\* not called the evaluator.
C10_ConfigFailureAborts ==
    \A n \in DOMAIN lintOut :
        configFails(dirOf(n)) =>
            /\ Len(lintOut[n].Exceptions) = 1
            /\ lintOut[n].Exceptions[1].kind = "ConfigError"
            /\ lintOut[n].Errors = <<>> /\ lintOut[n].Warnings = <<>>
            /\ lintOut[n].FormatNotices = <<>> /\ lintOut[n].DebugLogs = <<>>
            /\ evaluated(n) = {}

\* the walk is over: lintWalker has returned the root Result to LintHandler
walked == pcH \in {"walked", "exited"}

\* the directories at most k levels below n, in pre-order
RECURSIVE within(_, _), withinEach(_, _)
within(n, k) ==
    <<n>> \o (IF k > 0 THEN withinEach(tree.children[n], k - 1) ELSE <<>>)

withinEach(subdirs, k) ==
    IF subdirs = <<>> THEN <<>> ELSE within(Head(subdirs), k) \o withinEach(Tail(subdirs), k)

\* the instance and the workspace options of directory n resolve
resolves(n) == dirOf(n).env.instance # "err" /\ dirOf(n).env.wsOptions # "err"

\* the directories at most k levels below n that are reached through
\* directories that resolve and whose subdirectory listing succeeds
RECURSIVE reached(_, _), reachedEach(_, _)
reached(n, k) ==
    <<n>> \o (IF k > 0 /\ resolves(n) /\ dirOf(n).env.subdirs = "ok"
              THEN reachedEach(tree.children[n], k - 1) ELSE <<>>)

reachedEach(subdirs, k) ==
    IF subdirs = <<>> THEN <<>> ELSE reached(Head(subdirs), k) \o reachedEach(Tail(subdirs), k)

RECURSIVE concatOwn(_, _)
concatOwn(dirs, b) ==
    IF dirs = <<>> THEN <<>> ELSE own[Head(dirs)][b] \o concatOwn(Tail(dirs), b)

depthLimit == "max depth reached"

badSubdirs == "ignoring subdirs"

visitedDirs == [k \in 1..Len(visited) |-> visited[k].dir]

\* C7 as stated: lintWalker lints exactly the directories at most maxDepth
\* levels below the root, each once; the Result it returns is the
\* concatenation of their Results in pre-order; a directory reached with
\* maxDepth <= 0 that has subdirectories gets one depth-limit exception and
\* none of its subdirectories is linted.
C7_AsStated ==
    walked =>
        /\ linted = within(1, depth0)
        /\ \A b \in Buckets : root[b] = concatOwn(within(1, depth0), b)
        /\ \A k \in 1..Len(visited) :
                (visited[k].maxDepth <= 0 /\ tree.children[visited[k].dir] # <<>>) =>
                    /\ countErrors(own[visited[k].dir].Exceptions, depthLimit) = 1
                    /\ Range(tree.children[visited[k].dir]) \cap Range(linted) = {}

\* C7 amended: lintWalker is called, each once and in pre-order, on exactly
\* the directories at most maxDepth levels below the root that are reached
\* over listed subdirectories through directories whose instance and
\* workspace options resolve and whose subdirectory listing succeeds, and
\* lints those of them that resolve themselves; the Result it returns is the concatenation of these
\* directories' own Results in pre-order; a directory that resolves, is
\* reached with maxDepth <= 0 and lists subdirectories gets one depth-limit
\* exception and none of its subdirectories is linted.
C7_WalkIsPreOrder ==
    walked =>
        /\ visitedDirs = reached(1, depth0)
        /\ linted = SelectSeq(reached(1, depth0), resolves)
        /\ \A b \in Buckets : root[b] = concatOwn(reached(1, depth0), b)
        /\ \A k \in 1..Len(visited) :
                LET n == visited[k].dir
                IN  (/\ visited[k].maxDepth <= 0 /\ tree.children[n] # <<>>
                     /\ resolves(n) /\ dirOf(n).env.subdirs = "ok") =>
                        /\ countErrors(own[n].Exceptions, depthLimit) = 1
                        /\ Range(tree.children[n]) \cap Range(visitedDirs) = {}

\* a walk with maxDepth = 1 of a tree two levels deep is over: the root and
\* its two subdirectories were linted, the first subdirectory has findings
\* and reports the depth limit, its own subdirectory was not visited
C7_Witness ==
    /\ walked
    /\ depth0 = 1
    /\ tree.children[1] = <<2, 3>> /\ tree.children[2] = <<4>>
    /\ linted = <<1, 2, 3>>
    /\ own[2].Errors # <<>> /\ own[3].Errors # <<>> /\ own[1].FormatNotices # <<>>
    /\ countErrors(root.Exceptions, depthLimit) = 1

\* directory n got as far as a successful dir.Subdirs() that left some
\* subdirectories out
listedWithBad(n) ==
    /\ n \in DOMAIN own /\ n \in Range(linted)
    /\ dirOf(n).env.subdirs = "ok" /\ dirOf(n).env.badCount > 0

depthOf(n) == (CHOOSE v \in Range(visited) : v.dir = n).maxDepth

\* C9 as stated: whenever the listing succeeds with badCount > 0, the
\* directory's Result holds an exception counting the subdirectories left
\* out, also when maxDepth <= 0 and valid subdirectories exist.
C9_AsStated ==
    \A n \in DOMAIN tree.dirs :
        listedWithBad(n) =>
            \E k \in 1..Len(own[n].Exceptions) :
                /\ own[n].Exceptions[k].what = badSubdirs
                /\ own[n].Exceptions[k].n = dirOf(n).env.badCount

\* C9 amended: whenever the listing succeeds with badCount > 0, the
\* directory's Result holds one exception counting the subdirectories left
\* out, unless maxDepth <= 0 and valid subdirectories exist: then it holds
\* the depth-limit exception and none for the subdirectories left out.
C9_BadSubdirsCounted ==
    \A n \in DOMAIN tree.dirs :
        listedWithBad(n) =>
            IF depthOf(n) <= 0 /\ tree.children[n] # <<>>
            THEN /\ countErrors(own[n].Exceptions, badSubdirs) = 0
                 /\ countErrors(own[n].Exceptions, depthLimit) = 1
            ELSE /\ countErrors(own[n].Exceptions, badSubdirs) = 1
                 /\ \A k \in 1..Len(own[n].Exceptions) :
                        own[n].Exceptions[k].what = badSubdirs =>
                            own[n].Exceptions[k].n = dirOf(n).env.badCount

\* a directory with valid subdirectories and depth to spare lists them, one
\* subdirectory having been left out, and has the exception in its Result
C9_Witness ==
    \E n \in DOMAIN tree.dirs :
        /\ listedWithBad(n)
        /\ tree.children[n] # <<>> /\ depthOf(n) > 0
        /\ countErrors(own[n].Exceptions, badSubdirs) = 1

====
